---- MODULE Spec2Model ----
(***************************************************************************)
(* A model of EasyGmsh/RectMesh.py: the RectMesh object (its attributes    *)
(* are the fields of the record `self`), the gmsh.model.geo kernel it      *)
(* calls (the sequence `geo` of the creation calls it accepted), and a     *)
(* caller holding selection lists (`heap`, `regs`).                        *)
(*                                                                         *)
(* Python indices are 0-based; TLA+ sequences are 1-based.  Tables (numpy  *)
(* 2-D arrays) are functions on <<ix, iy>> with 0-based indices; Python    *)
(* lists and 1-D arrays are sequences, read through At(s, i) == s[i + 1].  *)
(* An attribute that has not been assigned is absent from DOMAIN self.     *)
(* An optional value (None or v) is the sequence <<>> or <<v>>.            *)
(***************************************************************************)
EXTENDS Integers, Sequences, FiniteSets, TLC

\* Bounds of the model.
MaxCells == 4      \* grids have nx * ny <= MaxCells cells
MaxStep == 2       \* the spacing of an axis is in 1..MaxStep
MaxK == 2          \* material ids in the matrix are in 1..MaxK
MaxCalls == 2      \* calls of the build methods on one RectMesh

VARIABLES
    given,     \* the arguments the RectMesh was constructed with
    self,      \* the RectMesh object: attribute name -> value
    geo,       \* the kernel: the creation calls it accepted, in order
    file,      \* the exported file: None, or Some(sequence of lines)
    hist,      \* the build methods called so far and whether each returned
    heap,      \* the selection lists alive: each is <<selX, selY>>
    regs,      \* the caller's variables: a position in heap, or 0 for None
    last       \* the statement the caller ran, if any

vars == <<given, self, geo, file, hist, heap, regs, last>>

----------------------------------------------------------------------------
\* Generic helpers for Python values.

None == <<>>
Some(v) == <<v>>
IsNone(o) == o = <<>>
Val(o) == o[1]

At(s, i) == s[i + 1]

Has(obj, attr) == attr \in DOMAIN obj
SetAttr(obj, attr, v) == (attr :> v) @@ obj

\* Python list indexing: l[i] is defined for -len <= i < len, negative i
\* counting from the end.
PyIndexOK(i, n) == -n <= i /\ i < n
PyPos(i, n) == IF i < 0 THEN i + n + 1 ELSE i + 1

Grid(w, h) == (0 .. w - 1) \X (0 .. h - 1)

\* for iy in range(h): for ix in range(w)
RowMajor(w, h) == [k \in 1 .. w * h |-> <<(k - 1) % w, (k - 1) \div w>>]
\* ColMajor stopping one column early: for ix in range(w - 1).
ColMajorShort(w, h) == [k \in 1 .. (w - 1) * h |-> <<(k - 1) \div h, (k - 1) % h>>]

\* for ix in range(w): for iy in range(h)
ColMajor(w, h) == [k \in 1 .. w * h |-> <<(k - 1) \div h, (k - 1) % h>>]

\* np.empty: the array holds whatever the allocator returns.  The outcomes
\* kept are the arrays filled with one of these values.
GarbageVals == {0, 1}
Uninit(w, h) == {[p \in Grid(w, h) |-> g] : g \in GarbageVals}

----------------------------------------------------------------------------
\* The geometry kernel (gmsh.model.geo): every accepted creation call, in
\* call order.  Tags are handed out per entity kind, fresh and sequential.

Call(op, tag, args, name) == [op |-> op, tag |-> tag, args |-> args, name |-> name]

OfKind(g, op) == SelectSeq(g, LAMBDA c : c.op = op)
NextTag(g, op) == Len(OfKind(g, op)) + 1
HasTag(g, op, t) == \E i \in 1 .. Len(g) : g[i].op = op /\ g[i].tag = t

Abs(n) == IF n < 0 THEN -n ELSE n

\* addPoint(x, y, 0, size) -> tag
addPoint(g, px, py) ==
    [ok |-> TRUE, tag |-> NextTag(g, "addPoint"),
     geo |-> Append(g, Call("addPoint", NextTag(g, "addPoint"), <<px, py>>, ""))]

\* addLine(start, end) -> tag; the kernel raises on an unknown point.
addLine(g, start, end) ==
    IF HasTag(g, "addPoint", start) /\ HasTag(g, "addPoint", end)
    THEN [ok |-> TRUE, tag |-> NextTag(g, "addLine"),
          geo |-> Append(g, Call("addLine", NextTag(g, "addLine"), <<start, end>>, ""))]
    ELSE [ok |-> FALSE, tag |-> 0, geo |-> g]

\* addCurveLoop(signed line tags) -> tag; the kernel raises on an unknown line.
addCurveLoop(g, lines) ==
    IF \A i \in 1 .. Len(lines) : HasTag(g, "addLine", Abs(lines[i]))
    THEN [ok |-> TRUE, tag |-> NextTag(g, "addCurveLoop"),
          geo |-> Append(g, Call("addCurveLoop", NextTag(g, "addCurveLoop"), lines, ""))]
    ELSE [ok |-> FALSE, tag |-> 0, geo |-> g]

\* addPlaneSurface([loop]) -> tag; the kernel raises on an unknown loop.
addPlaneSurface(g, loops) ==
    IF \A i \in 1 .. Len(loops) : HasTag(g, "addCurveLoop", loops[i])
    THEN [ok |-> TRUE, tag |-> NextTag(g, "addPlaneSurface"),
          geo |-> Append(g, Call("addPlaneSurface", NextTag(g, "addPlaneSurface"), loops, ""))]
    ELSE [ok |-> FALSE, tag |-> 0, geo |-> g]

\* addPhysicalGroup(2, entities, tag, name); the kernel raises when a
\* surface group with that tag is already registered.
addPhysicalGroup(g, entities, tag, name) ==
    IF HasTag(g, "addPhysicalGroup", tag)
    THEN [ok |-> FALSE, tag |-> 0, geo |-> g]
    ELSE [ok |-> TRUE, tag |-> tag,
          geo |-> Append(g, Call("addPhysicalGroup", tag, entities, name))]

----------------------------------------------------------------------------
\* RectMesh.  Every method maps the object and the kernel to the set of its
\* possible outcomes [self, geo, ok]; ok = FALSE when it raised.

Out(s, g, ok) == [self |-> s, geo |-> g, ok |-> ok]

\* __init__
RectMesh(lx, ly, materials, material_names) ==
    [x |-> lx, y |-> ly, nx |-> Len(lx) - 1, ny |-> Len(ly) - 1,
     _materials |-> materials, _material_names |-> material_names]

\* A method that allocates a (w, h) table with np.empty and then runs F on
\* it.  The method only writes the table it allocates, so whether it raises
\* does not depend on the content; when it returns, every entry was written.
WithEmpty(w, h, F(_)) ==
    LET one == F(CHOOSE e \in Uninit(w, h) : TRUE)
    IN IF one.ok THEN {one} ELSE {F(e) : e \in Uninit(w, h)}

\* generate_nodes, lines 43-47: the loop from position k of its order on.
RECURSIVE NodesLoop(_, _, _, _)
NodesLoop(s, g, order, k) ==
    IF k > Len(order) THEN Out(s, g, TRUE)
    ELSE IF ~Has(s, "mesh_size") THEN Out(s, g, FALSE)
    ELSE LET p == order[k]
             r == addPoint(g, At(s.x, p[1]), At(s.y, p[2]))
         IN NodesLoop([s EXCEPT !.nodes[p] = r.tag], r.geo, order, k + 1)

\* self.nodes is allocated before the first addPoint evaluates self.mesh_size.
generate_nodes(s, g) ==
    LET Run(empty) == NodesLoop(SetAttr(s, "nodes", empty), g,
                                RowMajor(s.nx + 1, s.ny + 1), 1)
    IN WithEmpty(s.nx + 1, s.ny + 1, Run)

\* generate_lines, lines 57-61: the lines along x.
RECURSIVE LinexLoop(_, _, _, _)
LinexLoop(s, g, order, k) ==
    IF k > Len(order) THEN Out(s, g, TRUE)
    ELSE IF ~Has(s, "nodes") THEN Out(s, g, FALSE)
    ELSE LET p == order[k]
             start == s.nodes[<<p[1], p[2]>>]
             end == s.nodes[<<p[1] + 1, p[2]>>]
             r == addLine(g, start, end)
         IN IF r.ok THEN LinexLoop([s EXCEPT !.linex[p] = r.tag], r.geo, order, k + 1)
            ELSE Out(s, g, FALSE)

\* generate_lines, lines 67-71: the lines along y.
RECURSIVE LineyLoop(_, _, _, _)
LineyLoop(s, g, order, k) ==
    IF k > Len(order) THEN Out(s, g, TRUE)
    ELSE LET p == order[k]
             start == s.nodes[<<p[1], p[2]>>]
             end == s.nodes[<<p[1], p[2] + 1>>]
             r == addLine(g, start, end)
         IN IF r.ok THEN LineyLoop([s EXCEPT !.liney[p] = r.tag], r.geo, order, k + 1)
            ELSE Out(s, g, FALSE)

\* self.liney is allocated once the loop over the x lines has finished.
generate_lines(s, g) ==
    LET RunX(emptyx) == LinexLoop(SetAttr(s, "linex", emptyx), g,
                                  RowMajor(s.nx, s.ny + 1), 1)
        RunY(o) == LET Run(emptyy) == LineyLoop(SetAttr(o.self, "liney", emptyy), o.geo,
                                                ColMajor(s.nx + 1, s.ny), 1)
                   IN WithEmpty(s.nx + 1, s.ny, Run)
    IN UNION {IF o.ok THEN RunY(o) ELSE {o} : o \in WithEmpty(s.nx, s.ny + 1, RunX)}

\* LoopLines with every line taken in its own direction.
LoopLinesUnsigned(s, ix, iy) ==
    << s.liney[<<ix + 1, iy>>],
       s.linex[<<ix, iy + 1>>],
       s.liney[<<ix, iy>>],
       s.linex[<<ix, iy>>] >>

\* The signed lines of the curve loop of cell (ix, iy), lines 84-89.
LoopLines(s, ix, iy) ==
    << s.liney[<<ix + 1, iy>>],
       -s.linex[<<ix, iy + 1>>],
       -s.liney[<<ix, iy>>],
       s.linex[<<ix, iy>>] >>

\* generate_surfaces, lines 82-91.
RECURSIVE SurfacesLoop(_, _, _, _)
SurfacesLoop(s, g, order, k) ==
    IF k > Len(order) THEN Out(s, g, TRUE)
    ELSE IF ~Has(s, "liney") \/ ~Has(s, "linex") THEN Out(s, g, FALSE)
    ELSE LET p == order[k]
             rc == addCurveLoop(g, LoopLines(s, p[1], p[2]))
             sc == [s EXCEPT !.curves[p] = rc.tag]
             rs == addPlaneSurface(rc.geo, <<rc.tag>>)
         IN IF ~rc.ok THEN Out(s, g, FALSE)
            ELSE IF ~rs.ok THEN Out(sc, rc.geo, FALSE)
            ELSE SurfacesLoop([sc EXCEPT !.surfaces[p] = rs.tag], rs.geo, order, k + 1)

\* self.curves and self.surfaces (np.empty_like) are allocated before the loop.
generate_surfaces(s, g) ==
    LET Run(emptyc, emptys) ==
          SurfacesLoop(SetAttr(SetAttr(s, "curves", emptyc), "surfaces", emptys),
                       g, RowMajor(s.nx, s.ny), 1)
        any == CHOOSE e \in Uninit(s.nx, s.ny) : TRUE
        one == Run(any, any)
    IN IF one.ok THEN {one}
       ELSE {Run(emptyc, emptys) : emptyc \in Uninit(s.nx, s.ny),
                                   emptys \in Uninit(s.nx, s.ny)}

\* str(i) of the default material names, line 103.
Str(i) == ToString(i)

\* len(self._materials): the length of the first axis of the matrix.
NMaterial(s) == Len(Val(s._materials))

\* The names the groups are built from, lines 102-103.
MaterialNames(s) ==
    IF IsNone(s._material_names)
    THEN Some([i \in 1 .. NMaterial(s) |-> Str(i - 1)])
    ELSE s._material_names

\* MaterialId without the vertical flip of the row index.
MaterialIdUnflipped(s, ix, iy) == At(At(Val(s._materials), iy), ix) - 1

\* Line 115: material_id = self._materials[self.ny - 1 - iy, ix] - 1
MaterialId(s, ix, iy) == At(At(Val(s._materials), s.ny - 1 - iy), ix) - 1

\* generate_physical_groups, lines 113-119: classify the cells.
RECURSIVE ClassifyLoop(_, _, _, _)
ClassifyLoop(s, g, order, k) ==
    IF k > Len(order) THEN Out(s, g, TRUE)
    ELSE LET ix == order[k][1]
             iy == order[k][2]
             material_id == MaterialId(s, ix, iy)
             n == Len(s.physical_groups)
         IN IF ~Has(s, "surfaces") THEN Out(s, g, FALSE)
            ELSE IF ~PyIndexOK(material_id, n) THEN Out(s, g, FALSE)
            ELSE ClassifyLoop(
                   [s EXCEPT !.physical_groups[PyPos(material_id, n)].entities =
                                 Append(@, s.surfaces[<<ix, iy>>])],
                   g, order, k + 1)

\* generate_physical_groups, lines 121-124: register the groups.
RECURSIVE RegisterLoop(_, _, _)
RegisterLoop(s, g, k) ==
    IF k > Len(s.physical_groups) THEN Out(s, g, TRUE)
    ELSE LET group == s.physical_groups[k]
             group_id == k - 1
             r == addPhysicalGroup(g, group.entities, group_id + 1, group.material_name)
         IN IF r.ok THEN RegisterLoop(s, r.geo, k + 1) ELSE Out(s, g, FALSE)

generate_physical_groups(s, g) ==
    IF IsNone(s._materials) THEN {Out(s, g, FALSE)}
    ELSE LET s1 == SetAttr(s, "n_matrial", NMaterial(s))
             s2 == [s1 EXCEPT !._material_names = MaterialNames(s1)]
             names == Val(s2._material_names)
             s3 == SetAttr(s2, "physical_groups",
                           [i \in 1 .. Len(names) |->
                              [material_name |-> names[i], entities |-> <<>>]])
             rc == ClassifyLoop(s3, g, RowMajor(s.nx, s.ny), 1)
         IN {IF rc.ok THEN RegisterLoop(rc.self, rc.geo, 1) ELSE rc}

\* Run method f on every outcome that did not raise.
Then(outs, f(_, _)) == UNION {IF o.ok THEN f(o.self, o.geo) ELSE {o} : o \in outs}

\* generate running generate_nodes twice.
generateNodesTwice(s, g, mesh_size) ==
    Then(Then(Then(Then(generate_nodes(SetAttr(s, "mesh_size", mesh_size), g),
                        generate_nodes),
                   generate_lines),
              generate_surfaces),
         generate_physical_groups)

generate(s, g, mesh_size) ==
    Then(Then(Then(generate_nodes(SetAttr(s, "mesh_size", mesh_size), g),
                   generate_lines),
              generate_surfaces),
         generate_physical_groups)

\* export_assembly_materials, lines 137-140: [entity, group_id] pairs.
RECURSIVE Flatten(_, _)
Flatten(groups, k) ==
    IF k > Len(groups) THEN <<>>
    ELSE [i \in 1 .. Len(groups[k].entities) |-> <<groups[k].entities[i], k - 1>>]
         \o Flatten(groups, k + 1)

\* sorted(l, key=lambda x: x[0]): stable, ascending by the first component.
RECURSIVE InsertByKey(_, _)
InsertByKey(sorted, e) ==
    IF sorted = <<>> THEN <<e>>
    ELSE IF e[1] < sorted[Len(sorted)][1]
         THEN Append(InsertByKey(SubSeq(sorted, 1, Len(sorted) - 1), e), sorted[Len(sorted)])
         ELSE Append(sorted, e)

RECURSIVE SortedByKey(_)
SortedByKey(l) ==
    IF l = <<>> THEN <<>>
    ELSE InsertByKey(SortedByKey(SubSeq(l, 1, Len(l) - 1)), l[Len(l)])

\* AssemblyLines without the sort by surface id.
AssemblyLinesUnsorted(s) ==
    LET assembly_materials == Flatten(s.physical_groups, 1)
    IN [i \in 1 .. Len(assembly_materials) |->
          <<assembly_materials[i][1], assembly_materials[i][2] + 1>>]

\* The lines written, line 146: "{assembly_id:<5d} {material_id + 1:d}\n",
\* kept as the pair of integers the two fields print.
AssemblyLines(s) ==
    LET assembly_materials == SortedByKey(Flatten(s.physical_groups, 1))
    IN [i \in 1 .. Len(assembly_materials) |->
          <<assembly_materials[i][1], assembly_materials[i][2] + 1>>]

----------------------------------------------------------------------------
\* Selections.  A selection is a Python list [selX, selY] of two index
\* arrays; lists are objects, so two variables may hold the same list.

\* np.array(range(n))
Range(n) == [i \in 1 .. n |-> i - 1]

\* The default selection of lines 184-188: all elements on both axes.
Default(s) == <<Range(s.nx), Range(s.ny)>>

\* A selection method's outcome: the heap after it and the list it returns.
Ret(h, ref) == [heap |-> h, ret |-> ref]

\* The list the filter works on: the one passed, or a new default list.
Selected(s, h, selected) ==
    IF selected = 0 THEN Ret(Append(h, Default(s)), Len(h) + 1) ELSE Ret(h, selected)

\* greater with the comparison of less.
greaterAsLess(s, h, dim, bound, selected) ==
    LET r == Selected(s, h, selected)
    IN Ret([r.heap EXCEPT ![r.ret][dim + 1] = SelectSeq(@, LAMBDA i : i <= bound)], r.ret)

\* greater, lines 184-192: selected[dim] = selected[dim][selected[dim] >= bound]
greater(s, h, dim, bound, selected) ==
    LET r == Selected(s, h, selected)
    IN Ret([r.heap EXCEPT ![r.ret][dim + 1] = SelectSeq(@, LAMBDA i : i >= bound)], r.ret)

\* less, lines 210-218: selected[dim] = selected[dim][selected[dim] <= bound]
less(s, h, dim, bound, selected) ==
    LET r == Selected(s, h, selected)
    IN Ret([r.heap EXCEPT ![r.ret][dim + 1] = SelectSeq(@, LAMBDA i : i <= bound)], r.ret)

\* equal, lines 236-244: selected[dim] = selected[dim][selected[dim] == bound]
equal(s, h, dim, bound, selected) ==
    LET r == Selected(s, h, selected)
    IN Ret([r.heap EXCEPT ![r.ret][dim + 1] = SelectSeq(@, LAMBDA i : i = bound)], r.ret)

\* np.sort(np.unique(np.concatenate([ai, bi]))): ascending, no duplicates.
RECURSIVE SortedSeq(_)
SortedSeq(S) ==
    IF S = {} THEN <<>>
    ELSE LET m == CHOOSE e \in S : \A f \in S : e <= f
         IN <<m>> \o SortedSeq(S \ {m})

Elems(q) == {q[i] : i \in 1 .. Len(q)}

\* join, lines 249-253: a new list of the per-axis sorted unions.
join(h, a, b) ==
    LET c == [i \in 1 .. 2 |-> SortedSeq(Elems(h[a][i] \o h[b][i]))]
    IN Ret(Append(h, c), Len(h) + 1)

\* numpy index arrays of lengths n and m broadcast when equal or when one is 1.
Broadcastable(n, m) == n = m \/ n = 1 \/ m = 1
BroadcastLen(n, m) == IF n = 1 THEN m ELSE n
Bcast(q, j) == IF Len(q) = 1 THEN q[1] ELSE q[j]

\* resolve as a cartesian product of the two index arrays.
resolveProduct(s, coord) ==
    IF ~Has(s, "surfaces") THEN None
    ELSE Some([j \in 1 .. Len(coord[1]) * Len(coord[2]) |->
                 s.surfaces[<<coord[1][((j - 1) \div Len(coord[2])) + 1],
                              coord[2][((j - 1) % Len(coord[2])) + 1]>>]])

\* resolve, line 264: self.surfaces[coord[0], coord[1]]; None when it raises.
resolve(s, coord) ==
    IF ~Has(s, "surfaces") \/ ~Broadcastable(Len(coord[1]), Len(coord[2])) THEN None
    ELSE Some([j \in 1 .. BroadcastLen(Len(coord[1]), Len(coord[2])) |->
                 s.surfaces[<<Bcast(coord[1], j), Bcast(coord[2], j)>>]])

----------------------------------------------------------------------------
\* Inputs.

MeshSize == 1

\* Grid sizes <<nx, ny>>: at least one cell on each axis.
Sizes == {sz \in (1 .. MaxCells) \X (1 .. MaxCells) : sz[1] * sz[2] <= MaxCells}

\* Coordinate sequences: n + 1 coordinates from 0 on, strictly increasing.
Axis(n, step) == [i \in 1 .. n + 1 |-> (i - 1) * step]

\* Material matrices of shape (ny, nx): a sequence of ny rows of nx ids.
Matrices(rows, cols) == [1 .. rows -> [1 .. cols -> 1 .. MaxK]]
Ones(rows, cols) == [r \in 1 .. rows |-> [c \in 1 .. cols |-> 1]]

AllNames == <<"UO2", "MOX43", "MOX70", "MOX87", "GT", "FC", "MOD">>
NameLists == {SubSeq(AllNames, 1, k) : k \in 1 .. MaxK}

Regs == {"a", "b"}
Dims == {0, 1}

\* The state after RectMesh(lx, ly, materials, material_names), against a
\* kernel that holds nothing yet.
Constructed(lx, ly, materials, material_names) ==
    /\ given = [materials |-> materials, material_names |-> material_names]
    /\ self = RectMesh(lx, ly, materials, material_names)
    /\ geo = <<>>
    /\ file = None
    /\ hist = <<>>
    /\ heap = <<>>
    /\ regs = [r \in Regs |-> 0]
    /\ last = [op |-> "none"]

\* Topology: every grid and spacing, with no materials or one material.
Init ==
    \E sz \in Sizes, dx \in 1 .. MaxStep, dy \in 1 .. MaxStep :
      \E materials \in {None, Some(Ones(sz[2], sz[1]))} :
         Constructed(Axis(sz[1], dx), Axis(sz[2], dy), materials, None)

\* Materials: every matrix and every list of names, on unit-spaced grids.
InitMaterials ==
    \E sz \in Sizes :
      \E materials \in {None} \cup {Some(M) : M \in Matrices(sz[2], sz[1])},
         material_names \in {None} \cup {Some(l) : l \in NameLists} :
           Constructed(Axis(sz[1], 1), Axis(sz[2], 1), materials, material_names)

----------------------------------------------------------------------------
\* The build methods, called by the application in any order.

selvars == <<heap, regs, last>>

Called(op, outs) ==
    /\ Len(hist) < MaxCalls
    /\ \E o \in outs :
         /\ self' = o.self
         /\ geo' = o.geo
         /\ hist' = Append(hist, [op |-> op, ok |-> o.ok])
    /\ UNCHANGED given

Generate ==
    /\ Called("generate", generate(self, geo, MeshSize))
    /\ UNCHANGED <<file, selvars>>

GenerateNodes ==
    /\ Called("generate_nodes", generate_nodes(self, geo))
    /\ UNCHANGED <<file, selvars>>

GenerateLines ==
    /\ Called("generate_lines", generate_lines(self, geo))
    /\ UNCHANGED <<file, selvars>>

GenerateSurfaces ==
    /\ Called("generate_surfaces", generate_surfaces(self, geo))
    /\ UNCHANGED <<file, selvars>>

GeneratePhysicalGroups ==
    /\ Called("generate_physical_groups", generate_physical_groups(self, geo))
    /\ UNCHANGED <<file, selvars>>

\* Without physical_groups the method raises before the file is opened.
ExportAssemblyMaterials ==
    /\ Called("export_assembly_materials", {Out(self, geo, Has(self, "physical_groups"))})
    /\ file' = IF Has(self, "physical_groups") THEN Some(AssemblyLines(self)) ELSE file
    /\ UNCHANGED selvars

Next ==
    \/ Generate
    \/ GenerateNodes
    \/ GenerateLines
    \/ GenerateSurfaces
    \/ GeneratePhysicalGroups
    \/ ExportAssemblyMaterials

Spec == Init /\ [][Next]_vars

NextMaterials ==
    \/ Generate
    \/ GeneratePhysicalGroups
    \/ ExportAssemblyMaterials

SpecMaterials == InitMaterials /\ [][NextMaterials]_vars

----------------------------------------------------------------------------
\* The caller of the selection methods.  It holds selection lists in two
\* variables, a and b, and runs one statement that binds the result of a
\* call to one of them (as lines 279-346 do); `last` records that statement
\* together with the heap, the variables, the mesh and the kernel it started
\* from.

Srcs == Regs \cup {"None"}
RefOf(src) == IF src = "None" THEN 0 ELSE regs[src]
NDim(dim) == IF dim = 0 THEN self.nx ELSE self.ny
Bounds(dim) == -1 .. NDim(dim)

Stmt(op, dim, bound, src, dst, ok, val) ==
    [op |-> op, dim |-> dim, bound |-> bound, src |-> src, dst |-> dst,
     ok |-> ok, val |-> val, heap0 |-> heap, regs0 |-> regs, self0 |-> self, geo0 |-> geo]

Ready == last.op = "none"

\* dst = <call>: the variable is rebound to the returned list.
Bind(op, dim, bound, src, dst, r) ==
    /\ Ready
    /\ heap' = r.heap
    /\ regs' = [regs EXCEPT ![dst] = r.ret]
    /\ last' = Stmt(op, dim, bound, src, dst, TRUE, None)
    /\ UNCHANGED <<given, self, geo, file, hist>>

\* The call raised: nothing is bound.
Raised(op, src) ==
    /\ Ready
    /\ last' = Stmt(op, 0, 0, src, src, FALSE, None)
    /\ UNCHANGED <<given, self, geo, file, hist, heap, regs>>

\* dst = mesh.greater(dim, bound[, src])
Greater ==
    \E dst \in Regs, dim \in Dims, src \in Srcs : \E bound \in Bounds(dim) :
       Bind("greater", dim, bound, src, dst, greater(self, heap, dim, bound, RefOf(src)))

\* dst = mesh.less(dim, bound[, src])
Less ==
    \E dst \in Regs, dim \in Dims, src \in Srcs : \E bound \in Bounds(dim) :
       Bind("less", dim, bound, src, dst, less(self, heap, dim, bound, RefOf(src)))

\* dst = mesh.equal(dim, bound[, src])
Equal ==
    \E dst \in Regs, dim \in Dims, src \in Srcs : \E bound \in Bounds(dim) :
       Bind("equal", dim, bound, src, dst, equal(self, heap, dim, bound, RefOf(src)))

\* dst = RectMesh.join(a, b) with the caller's two variables; zip raises on None.
Join ==
    \E dst \in Regs :
       IF regs["a"] = 0 \/ regs["b"] = 0 THEN Raised("join", dst)
       ELSE Bind("join", 0, 0, "a", dst, join(heap, regs["a"], regs["b"]))

\* dst = RectMesh.join(mesh.greater(dim, bound, S), mesh.less(dim, bound - 1, S)):
\* the arguments are evaluated left to right, then join is called.
JoinGreaterLess ==
    \E dst \in Regs, dim \in Dims, S \in Srcs : \E bound \in Bounds(dim) :
       LET g == greater(self, heap, dim, bound, RefOf(S))
           l == less(self, g.heap, dim, bound - 1, RefOf(S))
       IN Bind("join_greater_less", dim, bound, S, dst, join(l.heap, g.ret, l.ret))

\* mesh.resolve(src); None[0] raises, and so does an index array pair that
\* does not broadcast or a mesh without surfaces.
Resolve ==
    \E src \in Regs :
       IF regs[src] = 0 \/ IsNone(resolve(self, heap[regs[src]]))
       THEN Raised("resolve", src)
       ELSE /\ Ready
            /\ last' = Stmt("resolve", 0, 0, src, src, TRUE, resolve(self, heap[regs[src]]))
            /\ UNCHANGED <<given, self, geo, file, hist, heap, regs>>

NextSelect ==
    \/ Greater
    \/ Less
    \/ Equal
    \/ Join
    \/ JoinGreaterLess
    \/ Resolve

\* The index arrays over range(n): ascending, without duplicates.
IndexArrays(n) == {SortedSeq(T) : T \in SUBSET (0 .. n - 1)}

\* Selections: the mesh as constructed or after generate(), the caller
\* holding in a None or any selection list, and in b None, the list of a,
\* or a default list of its own.
InitSelect ==
    \E sz \in Sizes, built \in BOOLEAN :
      \E X \in IndexArrays(sz[1]), Y \in IndexArrays(sz[2]),
         ha \in BOOLEAN, hb \in {"None", "a", "default"} :
        LET lx == Axis(sz[1], 1)
            ly == Axis(sz[2], 1)
            mesh == RectMesh(lx, ly, Some(Ones(sz[2], sz[1])), None)
            o == CHOOSE o \in generate(mesh, <<>>, MeshSize) : TRUE
            ra == IF ha THEN 1 ELSE 0
        IN /\ given = [materials |-> mesh._materials, material_names |-> None]
           /\ self = IF built THEN o.self ELSE mesh
           /\ geo = IF built THEN o.geo ELSE <<>>
           /\ hist = IF built THEN <<[op |-> "generate", ok |-> o.ok]>> ELSE <<>>
           /\ file = None
           /\ heap = (IF ha THEN <<<<X, Y>>>> ELSE <<>>)
                       \o (IF hb = "default" THEN <<Default(mesh)>> ELSE <<>>)
           /\ regs = [v \in Regs |->
                        IF v = "a" THEN ra
                        ELSE IF hb = "None" THEN 0
                        ELSE IF hb = "a" THEN ra
                        ELSE ra + 1]
           /\ last = Stmt("none", 0, 0, "None", "a", TRUE, None)

SpecSelect == InitSelect /\ [][NextSelect]_vars

----------------------------------------------------------------------------
\* Reading the kernel and the history.

Entry(op, tag) == geo[CHOOSE i \in 1 .. Len(geo) : geo[i].op = op /\ geo[i].tag = tag]
Indices(op) == {i \in 1 .. Len(geo) : geo[i].op = op}

\* The coordinates of a point, and the grid coordinates of node (ix, iy).
Coord(point) == Entry("addPoint", point).args
XY(ix, iy) == <<At(self.x, ix), At(self.y, iy)>>

\* A signed line walked as <<from, to>>: a negative sign walks end to start.
Walk(l) ==
    LET e == Entry("addLine", Abs(l)).args
    IN IF l > 0 THEN <<e[1], e[2]>> ELSE <<e[2], e[1]>>

LoopOf(loop) == Entry("addCurveLoop", loop).args
Chained(loop) ==
    \A i \in 1 .. Len(LoopOf(loop)) :
       Walk(LoopOf(loop)[i])[2] = Walk(LoopOf(loop)[(i % Len(LoopOf(loop))) + 1])[1]
Visits(loop) == [i \in 1 .. Len(LoopOf(loop)) |-> Walk(LoopOf(loop)[i])[1]]
Corners(loop) == [i \in 1 .. Len(LoopOf(loop)) |-> Coord(Visits(loop)[i])]

\* The corners of cell (ix, iy) from the lower right one on, counter-clockwise.
Rect(ix, iy) == <<XY(ix + 1, iy), XY(ix + 1, iy + 1), XY(ix, iy + 1), XY(ix, iy)>>

\* Twice the signed area of a polygon: positive when counter-clockwise.
RECURSIVE Shoelace(_, _)
Shoelace(c, i) ==
    IF i > Len(c) THEN 0
    ELSE LET n == c[(i % Len(c)) + 1]
         IN c[i][1] * n[2] - n[1] * c[i][2] + Shoelace(c, i + 1)

Injective(f) == \A p, q \in DOMAIN f : f[p] = f[q] => p = q
Image(f) == {f[p] : p \in DOMAIN f}
Tags(op) == {geo[i].tag : i \in Indices(op)}

\* The first call was generate, and nothing was rebuilt after it.
Rebuilders == {"generate", "generate_nodes", "generate_lines", "generate_surfaces"}
GeneratedOnce ==
    /\ Len(hist) >= 1
    /\ hist[1].op = "generate"
    /\ \A i \in 2 .. Len(hist) : hist[i].op \notin Rebuilders

Cells == Grid(self.nx, self.ny)

----------------------------------------------------------------------------
\* C2: one run of generate_nodes, generate_lines and generate_surfaces
\* creates (nx+1)(ny+1) points, nx(ny+1) + (nx+1)ny lines and nx*ny surfaces,
\* and no two nodes, no two edges and no two surfaces share an id.
C2_CountsAndUniqueIds ==
    GeneratedOnce =>
      /\ Cardinality(Indices("addPoint")) = (self.nx + 1) * (self.ny + 1)
      /\ Cardinality(Indices("addLine")) =
           self.nx * (self.ny + 1) + (self.nx + 1) * self.ny
      /\ Cardinality(Indices("addPlaneSurface")) = self.nx * self.ny
      /\ Injective(self.nodes) /\ Injective(self.linex) /\ Injective(self.liney)
      /\ Image(self.linex) \cap Image(self.liney) = {}
      /\ Injective(self.surfaces)
      /\ Image(self.nodes) = Tags("addPoint")
      /\ Image(self.linex) \cup Image(self.liney) = Tags("addLine")
      /\ Image(self.surfaces) = Tags("addPlaneSurface")
      /\ Cardinality(Tags("addPoint")) = Cardinality(Indices("addPoint"))
      /\ Cardinality(Tags("addLine")) = Cardinality(Indices("addLine"))
      /\ Cardinality(Tags("addPlaneSurface")) = Cardinality(Indices("addPlaneSurface"))

C2_Witness == GeneratedOnce /\ self.nx = 2 /\ self.ny = 2

\* C3: the curve loop of every cell (ix, iy), walked in its stored order and
\* signs, chains head to tail, is closed, and visits Node(ix+1,iy),
\* Node(ix+1,iy+1), Node(ix,iy+1), Node(ix,iy): the corners of the rectangle
\* [x[ix],x[ix+1]] x [y[iy],y[iy+1]], counter-clockwise.
C3_LoopIsRectangle ==
    GeneratedOnce =>
      \A c \in Cells :
        LET ix == c[1]
            iy == c[2]
            loop == self.curves[c]
        IN /\ Entry("addPlaneSurface", self.surfaces[c]).args = <<loop>>
           /\ Len(LoopOf(loop)) = 4
           /\ Chained(loop)
           /\ Visits(loop) = << self.nodes[<<ix + 1, iy>>], self.nodes[<<ix + 1, iy + 1>>],
                                self.nodes[<<ix, iy + 1>>], self.nodes[<<ix, iy>>] >>
           /\ Corners(loop) = Rect(ix, iy)
           /\ Shoelace(Corners(loop), 1) > 0

C3_Witness ==
    /\ GeneratedOnce
    /\ <<1, 1>> \in Cells
    /\ Corners(self.curves[<<1, 1>>]) = <<<<4, 1>>, <<4, 2>>, <<2, 2>>, <<2, 1>>>>

\* How often the kernel was asked for the point of a node, the line of an
\* edge (from the node at c1 to the node at c2), the surface of a cell.
PointsAt(c) == Cardinality({i \in Indices("addPoint") : geo[i].args = c})
LinesBetween(c1, c2) ==
    Cardinality({i \in Indices("addLine") :
                   Coord(geo[i].args[1]) = c1 /\ Coord(geo[i].args[2]) = c2})
SurfacesOn(ix, iy) ==
    Cardinality({i \in Indices("addPlaneSurface") :
                   Corners(geo[i].args[1]) = Rect(ix, iy)})

Nodes == Grid(self.nx + 1, self.ny + 1)
\* The edges as <<from, to>> pairs of grid nodes.
Edges ==
    {<<p, <<p[1] + 1, p[2]>>>> : p \in Grid(self.nx, self.ny + 1)}
      \cup {<<p, <<p[1], p[2] + 1>>>> : p \in Grid(self.nx + 1, self.ny)}

\* Every created line comes after a point of every node, every created loop
\* and surface after a line of every edge.
NodesThenEdgesThenCells ==
    /\ \A i \in Indices("addLine") :
         \A p \in Nodes :
           \E j \in Indices("addPoint") : j < i /\ geo[j].args = XY(p[1], p[2])
    /\ \A i \in Indices("addCurveLoop") \cup Indices("addPlaneSurface") :
         \A e \in Edges :
           \E j \in Indices("addLine") :
             /\ j < i
             /\ Coord(geo[j].args[1]) = XY(e[1][1], e[1][2])
             /\ Coord(geo[j].args[2]) = XY(e[2][1], e[2][2])

\* The runs of a method that reached its end: generate runs the three
\* topology methods to their end whatever its own outcome.
Runs(method) ==
    Cardinality({i \in 1 .. Len(hist) :
                   hist[i].op = "generate" \/ (hist[i].op = method /\ hist[i].ok)})

\* C9 as claimed: under any sequence of calls of generate, generate_nodes,
\* generate_lines and generate_surfaces every node, edge and cell has its
\* kernel entity created at most once, no edge before every node exists and
\* no surface before every edge exists.
C9_CreatedOnceUnderAnyCalls ==
    /\ \A p \in Nodes : PointsAt(XY(p[1], p[2])) <= 1
    /\ \A e \in Edges : LinesBetween(XY(e[1][1], e[1][2]), XY(e[2][1], e[2][2])) <= 1
    /\ \A c \in Cells : SurfacesOn(c[1], c[2]) <= 1
    /\ NodesThenEdgesThenCells

\* C9 amended: one generate on a new RectMesh creates the entity of every
\* node, edge and cell exactly once, nodes before edges before surfaces;
\* nothing guards a second run, and every run of generate, generate_nodes,
\* generate_lines or generate_surfaces that reaches its end creates its
\* entities once more.
C9_CreatedOncePerRun ==
    /\ (Len(hist) >= 1 /\ hist[1].op = "generate") => NodesThenEdgesThenCells
    /\ \A p \in Nodes : PointsAt(XY(p[1], p[2])) = Runs("generate_nodes")
    /\ \A e \in Edges :
         LinesBetween(XY(e[1][1], e[1][2]), XY(e[2][1], e[2][2])) = Runs("generate_lines")
    /\ \A c \in Cells : SurfacesOn(c[1], c[2]) = Runs("generate_surfaces")

C9_Witness ==
    /\ hist = <<[op |-> "generate", ok |-> TRUE]>>
    /\ self.nx * self.ny >= 2
    /\ \A c \in Cells : SurfacesOn(c[1], c[2]) = 1

----------------------------------------------------------------------------
\* Materials.

\* The matrix and names the RectMesh was constructed with.
M == Val(given.materials)
MaxId == CHOOSE v \in 1 .. MaxK :
           /\ \E r \in 1 .. Len(M) : \E c \in 1 .. Len(M[r]) : M[r][c] = v
           /\ \A r \in 1 .. Len(M) : \A c \in 1 .. Len(M[r]) : M[r][c] <= v

\* generate was called, once.
OneGenerate ==
    /\ Len(hist) >= 1
    /\ hist[1].op = "generate"
    /\ \A i \in 2 .. Len(hist) : hist[i].op # "generate"

Groups == self.physical_groups
\* How often surface id e is listed in group k (1-based position).
Listed(e, k) ==
    Cardinality({i \in 1 .. Len(Groups[k].entities) : Groups[k].entities[i] = e})

RECURSIVE SumLen(_, _)
SumLen(groups, k) ==
    IF k > Len(groups) THEN 0 ELSE Len(groups[k].entities) + SumLen(groups, k + 1)

\* Every surface is listed once in one group; group g (0-based) lists the
\* surfaces of the cells with M[ny-1-iy, ix] - 1 = g and is registered in
\* the kernel under tag g + 1 with its name.
PartitionedByMatrix(names) ==
    /\ Len(Groups) = Len(names)
    /\ SumLen(Groups, 1) = self.nx * self.ny
    /\ \A c \in Cells :
         /\ \E k \in 1 .. Len(Groups) : Listed(self.surfaces[c], k) = 1
         /\ \A k, l \in 1 .. Len(Groups) :
              Listed(self.surfaces[c], k) > 0 /\ Listed(self.surfaces[c], l) > 0 => k = l
    /\ \A k \in 1 .. Len(Groups) :
         /\ Elems(Groups[k].entities) =
              {self.surfaces[c] : c \in {d \in Cells : M[self.ny - d[2]][d[1] + 1] = k}}
         /\ Groups[k].material_name = names[k]
         /\ HasTag(geo, "addPhysicalGroup", k)
         /\ Entry("addPhysicalGroup", k).args = Groups[k].entities
         /\ Entry("addPhysicalGroup", k).name = names[k]

\* C1: with a list of k names and a matrix with values in 1..k, after the
\* four generate_* methods every surface is in exactly one of the k groups,
\* the sizes sum to nx*ny, group g holds the surfaces of the cells with
\* M[ny-1-iy, ix] - 1 = g, and is registered with tag g + 1.
C1_GroupsPartitionSurfaces ==
    ( /\ OneGenerate
      /\ ~IsNone(given.materials) /\ ~IsNone(given.material_names)
      /\ MaxId <= Len(Val(given.material_names)) )
    => /\ hist[1].ok
       /\ PartitionedByMatrix(Val(given.material_names))

C1_Witness ==
    /\ hist = <<[op |-> "generate", ok |-> TRUE]>>
    /\ given.materials = Some(<<<<1, 2>>, <<2, 2>>>>)
    /\ given.material_names = Some(<<"UO2", "MOX43">>)
    /\ Len(Groups[1].entities) = 1 /\ Len(Groups[2].entities) = 3

\* C6: after a successful generate, export_assembly_materials writes nx*ny
\* records, one per surface, in strictly ascending surface id order; the
\* material id of Surface(ix,iy) is M[ny-1-iy, ix], the tag of its group.
C6_ExportedRecords ==
    (OneGenerate /\ hist[1].ok /\ ~IsNone(file)) =>
      LET lines == Val(file) IN
      /\ Len(lines) = self.nx * self.ny
      /\ \A i \in 1 .. Len(lines) - 1 : lines[i][1] < lines[i + 1][1]
      /\ \A c \in Cells :
           \E i \in 1 .. Len(lines) :
             /\ lines[i][1] = self.surfaces[c]
             /\ lines[i][2] = M[self.ny - c[2]][c[1] + 1]
             /\ self.surfaces[c] \in Elems(Entry("addPhysicalGroup", lines[i][2]).args)
      /\ (self.x = <<0, 1, 2>> /\ self.y = <<0, 1, 2>> /\ M = <<<<1, 2>>, <<2, 1>>>>)
           => lines = <<<<1, 2>>, <<2, 1>>, <<3, 1>>, <<4, 2>>>>

C6_Witness ==
    /\ OneGenerate /\ hist[1].ok
    /\ M = <<<<1, 2>>, <<2, 1>>>>
    /\ file = Some(<<<<1, 2>>, <<2, 1>>, <<3, 1>>, <<4, 2>>>>)

\* C8 as claimed: with the names omitted and a matrix with values in 1..k,
\* generate_physical_groups returns without error, creates one group per
\* material id 1..k, named "0".."k-1", and lists every surface in exactly
\* one group, whatever ny and k.
C8_DefaultNamesOnePerMaterial ==
    (OneGenerate /\ ~IsNone(given.materials) /\ IsNone(given.material_names)) =>
      /\ hist[1].ok
      /\ PartitionedByMatrix([k \in 1 .. MaxId |-> ToString(k - 1)])

----------------------------------------------------------------------------
\* Selections.

Filters == {"greater", "less", "equal"}

\* The list given to the last call (0 when omitted or None), the selection
\* the call started from, and the list the statement bound.
Passed0 == IF last.src = "None" THEN 0 ELSE last.regs0[last.src]
In0 == IF Passed0 = 0 THEN Default(self) ELSE last.heap0[Passed0]
Res == heap[regs[last.dst]]
OutOfRange == last.bound < 0 \/ last.bound >= NDim(last.dim)

\* C4: resolve pairs the two index arrays positionally with broadcasting: a
\* length-1 array is repeated to the other's length, arrays of equal length
\* are zipped, and for other lengths resolve raises and leaves the node,
\* edge, surface and group tables as they were.
C4_ResolvePairsPositionally ==
    (last.op = "resolve" /\ Passed0 # 0 /\ Has(self, "surfaces")) =>
      LET X == last.heap0[Passed0][1]
          Y == last.heap0[Passed0][2]
      IN /\ Len(X) = 1 =>
              /\ last.ok
              /\ last.val = Some([j \in 1 .. Len(Y) |-> self.surfaces[<<X[1], Y[j]>>]])
         /\ Len(Y) = 1 =>
              /\ last.ok
              /\ last.val = Some([j \in 1 .. Len(X) |-> self.surfaces[<<X[j], Y[1]>>]])
         /\ Len(X) = Len(Y) =>
              /\ last.ok
              /\ last.val = Some([j \in 1 .. Len(X) |-> self.surfaces[<<X[j], Y[j]>>]])
         /\ (Len(X) # Len(Y) /\ Len(X) # 1 /\ Len(Y) # 1) => ~last.ok /\ last.val = None
         /\ self = last.self0 /\ geo = last.geo0 /\ heap = last.heap0

C4_Witness ==
    /\ last.op = "resolve" /\ last.ok
    /\ heap[regs[last.src]] = <<<<1>>, <<0, 1>>>>
    /\ last.val = Some(<<self.surfaces[<<1, 0>>], self.surfaces[<<1, 1>>]>>)
    /\ last.val = Some(<<2, 4>>)

\* C5 as claimed: with S the full default selection given to both calls,
\* join(greater(d, b, S), less(d, b - 1, S)) has on axis d the full index
\* range 0..n_d-1.
C5_PartitionLaw ==
    (last.op = "join_greater_less" /\ Passed0 # 0 /\ In0 = Default(self)) =>
      Res[last.dim + 1] = Range(NDim(last.dim))

C10_PureTransformations ==
    /\ (last.op \in Filters /\ last.ok /\ Passed0 # 0) =>
         /\ heap[Passed0] = last.heap0[Passed0]
         /\ Res[2 - last.dim] = In0[2 - last.dim]
    /\ (last.op = "join" /\ last.ok) =>
         /\ \A i \in 1 .. Len(last.heap0) : heap[i] = last.heap0[i]
         /\ regs[last.dst] > Len(last.heap0)

====
